---- MODULE Spec2Model ----
(***************************************************************************)
(* Model of calc_fish_eye_to_partition.py (class CalcExperimentSetup and   *)
(* the script's main) and of plot_distances.py (main and its command line).*)
(*                                                                         *)
(* Python floats are modelled as decimal floating-point numbers            *)
(* [m |-> mantissa, e |-> exponent] of value m * 10^e with a mantissa of   *)
(* Digits digits, every operation rounding toward zero.  Like IEEE doubles *)
(* they keep a relative precision over a wide range of magnitudes, which   *)
(* is what lets the code divide by cos(pi/2) without an exception.         *)
(***************************************************************************)
EXTENDS Integers, Sequences, FiniteSets, TLC

----------------------------------------------------------------------------
(* Floating-point arithmetic                                               *)

RECURSIVE Pow10(_)
Pow10(n) == IF n <= 0 THEN 1 ELSE 10 * Pow10(n - 1)

\* number of mantissa digits of a float (53 bits in Python; 4 digits here, so
\* that the product of two mantissas stays below 2^31)
Digits == 4

MantMin == Pow10(Digits - 1)
MantMax == Pow10(Digits)

IAbs(n) == IF n < 0 THEN -n ELSE n
ISign(n) == IF n < 0 THEN -1 ELSE 1

\* the float nearest to m * 10^e toward zero
RECURSIVE Norm(_, _)
Norm(m, e) ==
  IF m = 0 THEN [m |-> 0, e |-> 0]
  ELSE IF IAbs(m) >= MantMax THEN Norm(ISign(m) * (IAbs(m) \div 10), e + 1)
  ELSE IF IAbs(m) < MantMin THEN Norm(m * 10, e - 1)
  ELSE [m |-> m, e |-> e]

Zero == Norm(0, 0)
One == Norm(1, 0)

FNeg(a) == [m |-> -a.m, e |-> a.e]
FAbs(a) == [m |-> IAbs(a.m), e |-> a.e]

\* a + b: the smaller operand is aligned to the larger one's exponent with one
\* guard digit, or lost when it lies below the larger one's last digit
FAdd(a, b) ==
  IF a.m = 0 THEN b
  ELSE IF b.m = 0 THEN a
  ELSE LET hi == IF a.e >= b.e THEN a ELSE b
           lo == IF a.e >= b.e THEN b ELSE a
           d  == hi.e - lo.e
       IN IF d > Digits + 1 THEN hi
          ELSE Norm(hi.m * Pow10(d) + lo.m, lo.e)

FSub(a, b) == FAdd(a, FNeg(b))

FMul(a, b) == Norm(a.m * b.m, a.e + b.e)

\* a / b for b # 0 (Python raises ZeroDivisionError before dividing by 0.0)
FDiv(a, b) ==
  Norm(ISign(a.m) * ISign(b.m) * ((IAbs(a.m) * Pow10(Digits + 1)) \div IAbs(b.m)),
       a.e - b.e - (Digits + 1))

FLt(a, b) == FSub(a, b).m < 0
FLe(a, b) == FSub(a, b).m <= 0

\* the integer nearest to a, halves away from zero
FRound(a) ==
  IF a.e >= 0 THEN a.m * Pow10(a.e)
  ELSE IF -a.e > Digits + 1 THEN 0
  ELSE ISign(a.m) * ((IAbs(a.m) + Pow10(-a.e) \div 2) \div Pow10(-a.e))

RECURSIVE ISqrtIter(_, _)
ISqrtIter(n, g) ==
  LET h == (g + n \div g) \div 2
  IN IF h >= g THEN g ELSE ISqrtIter(n, h)

\* floor of the square root of a natural number
ISqrt(n) == IF n = 0 THEN 0 ELSE ISqrtIter(n, n)

\* math.sqrt of a >= 0
FSqrt(a) ==
  IF a.m = 0 THEN Zero
  ELSE LET j == IF (a.e - (Digits - 1)) % 2 = 0 THEN Digits - 1 ELSE Digits
       IN Norm(ISqrt(a.m * Pow10(j)), (a.e - j) \div 2)

----------------------------------------------------------------------------
(* The functions of Python's math module that the calculation uses         *)

\* math.pi: the float next to pi, which lies below pi (3.141592653589793)
Pi == Norm(3141, -3)

\* pi/2 in two parts, as the argument reduction of the C library carries it:
\* the float below pi/2 and the rest
PiO2Hi == Norm(1570, -3)
PiO2Lo == Norm(7963, -7)

FInt(n) == Norm(n, 0)

\* sin on the reduced interval [-pi/4, pi/4]
KernelSin(r) ==
  LET z == FMul(r, r)
      t3 == FSub(One, FDiv(z, FInt(42)))
      t2 == FSub(One, FMul(FDiv(z, FInt(20)), t3))
      t1 == FSub(One, FMul(FDiv(z, FInt(6)), t2))
  IN FMul(r, t1)

\* cos on the reduced interval [-pi/4, pi/4]
KernelCos(r) ==
  LET z == FMul(r, r)
      t3 == FSub(One, FDiv(z, FInt(30)))
      t2 == FSub(One, FMul(FDiv(z, FInt(12)), t3))
  IN FSub(One, FMul(FDiv(z, FInt(2)), t2))

\* argument reduction: x = k * pi/2 + r with |r| <= pi/4
ReduceK(x) == FRound(FDiv(x, PiO2Hi))
Remainder(x, k) == FSub(FSub(x, FMul(k, PiO2Hi)), FMul(k, PiO2Lo))
ReduceR(x) == Remainder(x, FInt(ReduceK(x)))

\* sin(q * pi/2 + r)
SinQuadrant(q, r) ==
  CASE q % 4 = 0 -> KernelSin(r)
    [] q % 4 = 1 -> KernelCos(r)
    [] q % 4 = 2 -> FNeg(KernelSin(r))
    [] q % 4 = 3 -> FNeg(KernelCos(r))

\* math.sin
Sin(x) == SinQuadrant(ReduceK(x), ReduceR(x))

\* math.cos
Cos(x) == SinQuadrant(ReduceK(x) + 1, ReduceR(x))

\* math.tan (never raises: the reduced cosine of a float is never 0)
Tan(x) == FDiv(Sin(x), Cos(x))

\* atan on [0, 7/16]
KernelAtan(t) ==
  LET z == FMul(t, t)
      t4 == FSub(FDiv(One, FInt(7)), FDiv(z, FInt(9)))
      t3 == FSub(FDiv(One, FInt(5)), FMul(z, t4))
      t2 == FSub(FDiv(One, FInt(3)), FMul(z, t3))
      t1 == FSub(One, FMul(z, t2))
  IN FMul(t, t1)

\* atan of z >= 0, reduced at the break points 7/16, 11/16, 19/16, 39/16
Atan(z) ==
  IF FLt(z, Norm(4375, -4)) THEN KernelAtan(z)
  ELSE IF FLt(z, Norm(6875, -4))
    THEN FAdd(Norm(4636, -4),
              KernelAtan(FDiv(FSub(FMul(FInt(2), z), One), FAdd(FInt(2), z))))
  ELSE IF FLt(z, Norm(11875, -4))
    THEN FAdd(Norm(7853, -4), KernelAtan(FDiv(FSub(z, One), FAdd(z, One))))
  ELSE IF FLt(z, Norm(24375, -4))
    THEN FAdd(Norm(9827, -4),
              KernelAtan(FDiv(FSub(z, Norm(15, -1)),
                              FAdd(One, FMul(Norm(15, -1), z)))))
  ELSE FSub(PiO2Hi, KernelAtan(FDiv(One, z)))

\* the angle of (x, y) from atan(|y / x|), by quadrant
Quadrant(a, y, x) ==
  IF x.m > 0 THEN (IF y.m < 0 THEN FNeg(a) ELSE a)
  ELSE (IF y.m < 0 THEN FNeg(FSub(Pi, a)) ELSE FSub(Pi, a))

\* math.atan2(y, x).  Zero has no sign here: atan2(0.0, -0.0) = pi, which
\* the code meets only for h_p_prime = h_f with h_b_prime < h_f, is not
\* among the measurements drawn below.
Atan2(y, x) ==
  IF x.m = 0
    THEN (IF y.m = 0 THEN Zero
          ELSE IF y.m > 0 THEN PiO2Hi ELSE FNeg(PiO2Hi))
  ELSE Quadrant(Atan(FAbs(FDiv(y, x))), y, x)

\* math.asin raises ValueError ("math domain error") outside [-1, 1]
AsinDomainError(x) == FLt(One, FAbs(x))

\* math.asin of x in [-1, 1]
Asin(x) == Atan2(x, FSqrt(FSub(One, FMul(x, x))))

----------------------------------------------------------------------------
(* class CalcExperimentSetup                                               *)

\* 0.158 for 0.185
d_b_transposed == Norm(158, -3)

\* d_b: horizontal distance between partition and ball, 0.185 m
d_b == Norm(185, -3)

\* the refractive index of air wrt water, 1 / 1.33
n12 == Norm(7518, -4)

\* n21: refractive index of water wrt air, 1.33
n21 == Norm(133, -2)

Half == Norm(5, -1)

\* the tolerance 1e-6 of the test for beta = +-pi/2
BetaTol == Norm(1, -6)

\* the test without its second line
BetaIsPlusHalfPi(beta) == FLt(FAbs(FSub(beta, FMul(Pi, Half))), BetaTol)

\* the condition under which the WARN line is printed
BetaIsHalfPi(beta) ==
  \/ FLt(FAbs(FSub(beta, FMul(Pi, Half))), BetaTol)
  \/ FLt(FAbs(FAdd(beta, FMul(Pi, Half))), BetaTol)

\* The result of a call: the exception it raised ("none" when it returned),
\* the lines it printed, the value it returned (<<>> when it raised) and the
\* instance's input_printed after it.
Outcome(raised, out, ret, input_printed) ==
  [raised |-> raised, out |-> out, ret |-> ret, input_printed |-> input_printed]

\* Lines 53-79 of calc_fish_eye_to_partition_no_Snell, given the lines
\* printed so far, h_p, h_b and cos(beta): the two divisions, the inputs
\* printed once, the result
NoSnellDivide(input_printed, warn, h_p, h_b, cos_beta) ==
  IF cos_beta.m = 0 \/ FSub(h_b, h_p).m = 0
    THEN Outcome("ZeroDivisionError", warn, <<>>, input_printed)
  ELSE Outcome("none",
         warn \o (IF input_printed THEN <<>> ELSE <<"Input constants">>)
              \o <<"WITHOUT">>,
         << FDiv(FMul(h_p, FDiv(d_b, cos_beta)), FSub(h_b, h_p)), h_p >>,
         input_printed)

\* calc_fish_eye_to_partition_no_Snell(self, h_f, h_p_prime, h_b_prime, beta)
\* returns (d_p, h_p)
calc_fish_eye_to_partition_no_Snell(input_printed, h_f, h_p_prime, h_b_prime, beta) ==
  NoSnellDivide(input_printed,
    IF BetaIsHalfPi(beta) THEN <<"WARN">> ELSE <<>>,
    FSub(h_p_prime, h_f), FSub(h_b_prime, h_f), Cos(beta))

\* sin(theta2) of Snell's law: theta1 is the incident angle of the ray that
\* leaves the horizontal at theta0
SinRefracted(theta0) == FDiv(Sin(FSub(FMul(Half, Pi), theta0)), n21)

\* d_p_2: the distance along the ray with the refraction at the surface,
\* d_p_1 - (h_w / tan(theta0)) + d_s, projected on the normal of the panel
SnellDistance(d_p_1, h_w, tan_theta0, tan_theta2, beta) ==
  FMul(FAdd(FSub(d_p_1, FDiv(h_w, tan_theta0)), FMul(h_w, tan_theta2)),
       Sin(FSub(FMul(Half, Pi), beta)))

\* the projection on the normal of the panel made only when the inputs are
\* printed
SnellRefractOnce(input_printed, out, d_p_1, h_w, beta, sin_theta2, tan_theta0) ==
  IF AsinDomainError(sin_theta2)
    THEN Outcome("ValueError", out, <<>>, input_printed)
  ELSE IF tan_theta0.m = 0
    THEN Outcome("ZeroDivisionError", out, <<>>, input_printed)
  ELSE Outcome("none",
         out \o (IF input_printed THEN <<>> ELSE <<"h_w">>) \o <<"WITH">>,
         << SnellDistance(d_p_1, h_w, tan_theta0, Tan(Asin(sin_theta2)),
                          IF input_printed THEN Zero ELSE beta) >>,
         TRUE)

\* Lines 113-134 of calc_fish_eye_to_partition, given the lines printed so
\* far, d_p_1, h_w, sin(theta2) and tan(theta0)
SnellRefract(input_printed, out, d_p_1, h_w, beta, sin_theta2, tan_theta0) ==
  IF AsinDomainError(sin_theta2)
    THEN Outcome("ValueError", out, <<>>, input_printed)
  ELSE IF tan_theta0.m = 0
    THEN Outcome("ZeroDivisionError", out, <<>>, input_printed)
  ELSE Outcome("none",
         out \o (IF input_printed THEN <<>> ELSE <<"h_w">>) \o <<"WITH">>,
         << SnellDistance(d_p_1, h_w, tan_theta0, Tan(Asin(sin_theta2)), beta) >>,
         TRUE)

\* Lines 106-134, given the lines printed so far and theta0
SnellAngles(input_printed, out, d_p_1, h_w, beta, theta0) ==
  SnellRefract(input_printed, out, d_p_1, h_w, beta,
    SinRefracted(theta0), Tan(theta0))

\* Lines 98-134, given the outcome of the call of the method without Snell's
\* law (an exception of it propagates) and h_w: the ERROR line is printed for
\* h_w <= 0 and the calculation goes on
SnellAfter(input_printed, first, h_w, beta) ==
  IF first.raised # "none" THEN first
  ELSE SnellAngles(input_printed,
         first.out \o (IF FLe(h_w, Zero) THEN <<"ERROR">> ELSE <<>>),
         first.ret[1], h_w, beta, Atan2(first.ret[2], first.ret[1]))

\* calc_fish_eye_to_partition(self, h_f, h_p_prime, h_b_prime, h_w_prime, beta)
\* returns d_p_2
calc_fish_eye_to_partition(input_printed, h_f, h_p_prime, h_b_prime, h_w_prime, beta) ==
  SnellAfter(input_printed,
    calc_fish_eye_to_partition_no_Snell(input_printed, h_f, h_p_prime, h_b_prime, beta),
    FSub(h_w_prime, h_f), beta)

----------------------------------------------------------------------------
(* The script: inputs                                                      *)

H(mm) == Norm(mm, -3)

Config(f, p, b, w) ==
  [h_f |-> H(f), h_p_prime |-> H(p), h_b_prime |-> H(b), h_w_prime |-> H(w)]

\* The measurements are edited in the script before it is run ("Change args
\* and constants as needed").  The values of the script (before and after
\* trials), a water level below and one at the eye, and a ball bottom level
\* with the partition top.
SmallFish == Config(20, 75, 200, 70)
LargeFish == Config(30, 100, 230, 80)
Configs ==
  { SmallFish, LargeFish, Config(20, 55, 200, 30), Config(20, 75, 200, 10),
    Config(20, 75, 200, 20), Config(20, 75, 75, 70) }

\* range(lo, hi, step) for step > 0
RECURSIVE PyRange(_, _, _)
PyRange(lo, hi, step) ==
  IF lo >= hi THEN <<>> ELSE <<lo>> \o PyRange(lo + step, hi, step)

\* beta_degs: the range of the script, and the range "-90 to 90 degrees" its
\* comment names, at coarser steps too
AngleSeqs ==
  { PyRange(-80, 90, 10), PyRange(-90, 100, 10), PyRange(-80, 90, 40),
    PyRange(-90, 100, 45), PyRange(-90, 100, 90) }

\* beta = beta_deg / 180.0 * math.pi
DegToRad(beta_deg) == FMul(FDiv(FInt(beta_deg), FInt(180)), Pi)

\* the angles and measurements of direct calls of the two methods (0 is the
\* default of beta)
CallDegs == {-90, -40, 0, 40, 90}
CallConfigs ==
  { SmallFish, LargeFish, Config(20, 75, 200, 10), Config(20, 75, 200, 20),
    Config(20, 75, 75, 70) }

\* most calls made on one instance by a direct caller
MaxCalls == 3

\* sys.argv[1:] of plot_distances.py
Argvs == { <<>>, <<"small">>, <<"large">>, <<"medium">> }

beta_degs_field == "beta(degs)"
distance_field == "distance(m)"

CsvName(fish_size) ==
  IF fish_size = "small" THEN "distances_small.csv" ELSE "distances_large.csv"
EpsName(fish_size) ==
  IF fish_size = "small" THEN "distances_small_from_panel.eps"
  ELSE "distances_large_from_panel.eps"
PngName(fish_size) ==
  IF fish_size = "small" THEN "distances_small_from_panel.png"
  ELSE "distances_large_from_panel.png"

FileNames ==
  { CsvName("small"), CsvName("large"), EpsName("small"), EpsName("large"),
    PngName("small"), PngName("large") }

NoFile == [exists |-> FALSE, header |-> <<>>, rows |-> <<>>]

----------------------------------------------------------------------------
(* State                                                                   *)

VARIABLES
  h_small,         \* h_f_small, h_p_prime_small, h_b_prime_small, h_w_prime_small
  h_large,         \* h_f_large, h_p_prime_large, h_b_prime_large, h_w_prime_large
  beta_degs,       \* the angles of the sweep, in degrees
  pc,              \* where the calculator is: "api" (methods called directly),
                   \* "sweep_small", "sweep_large", "write_csv", "done", "raised"
  i,               \* index in beta_degs of the next angle of the running loop
  dists_small,
  dists_large,
  input_printed,   \* calc.input_printed
  n_input_blocks,  \* number of times "Input constants:" was printed
  n_calls,         \* number of direct calls made on the instance
  last,            \* the last call of a method: arguments and outcome
  raised,          \* the exception that ended the calculator, or "none"
  files,           \* the working directory
  plot             \* the run of plot_distances.py

vars ==
  << h_small, h_large, beta_degs, pc, i, dists_small, dists_large,
     input_printed, n_input_blocks, n_calls, last, raised, files, plot >>

NoCall ==
  [method |-> "none", before |-> FALSE, h_f |-> Zero, h_p_prime |-> Zero,
   h_b_prime |-> Zero, h_w_prime |-> Zero, beta |-> Zero,
   raised |-> "none", out |-> <<>>, ret |-> <<>>]

CallRecord(method, before, cfg, beta, r) ==
  [method |-> method, before |-> before, h_f |-> cfg.h_f,
   h_p_prime |-> cfg.h_p_prime, h_b_prime |-> cfg.h_b_prime,
   h_w_prime |-> cfg.h_w_prime, beta |-> beta,
   raised |-> r.raised, out |-> r.out, ret |-> r.ret]

\* fish_size is the argument main() was called with, "" while it was not
PlotIdle ==
  [pc |-> "idle", argv |-> <<>>, fish_size |-> "", status |-> 0,
   raised |-> "none",
   beta_degs |-> <<>>, dists |-> <<>>, x_along_panel |-> <<>>]

\* number of lines "Input constants:" among the printed lines
InputBlocks(out) == Cardinality({k \in 1..Len(out) : out[k] = "Input constants"})

InitCommon ==
  /\ i = 1
  /\ dists_small = <<>>
  /\ dists_large = <<>>
  /\ input_printed = FALSE
  /\ n_input_blocks = 0
  /\ n_calls = 0
  /\ last = NoCall
  /\ raised = "none"
  /\ files = [f \in FileNames |-> NoFile]
  /\ plot = PlotIdle

\* main() starts: calc = CalcExperimentSetup(), the measurements as edited
Init ==
  /\ h_small \in Configs
  /\ h_large \in Configs
  /\ beta_degs \in AngleSeqs
  /\ pc = "sweep_small"
  /\ InitCommon

----------------------------------------------------------------------------
(* main() of calc_fish_eye_to_partition.py                                 *)

\* One iteration of a loop "for beta_deg in beta_degs": the call of
\* calc.calc_fish_eye_to_partition and the append of its result.  An
\* exception of the call is caught nowhere and ends the script.
SweepCall(cfg) ==
  calc_fish_eye_to_partition(input_printed, cfg.h_f, cfg.h_p_prime,
    cfg.h_b_prime, cfg.h_w_prime, DegToRad(beta_degs[i]))

SweepEffects(cfg, r) ==
  /\ last' = CallRecord("calc_fish_eye_to_partition", input_printed, cfg,
                        DegToRad(beta_degs[i]), r)
  /\ n_input_blocks' = n_input_blocks + InputBlocks(r.out)
  /\ input_printed' = r.input_printed
  /\ raised' = r.raised
  /\ pc' = IF r.raised # "none" THEN "raised" ELSE pc
  /\ i' = IF r.raised # "none" THEN i ELSE i + 1

SweepSmallAppend(r) ==
  /\ SweepEffects(h_small, r)
  /\ dists_small' = dists_small \o r.ret

SweepSmall ==
  /\ pc = "sweep_small"
  /\ i <= Len(beta_degs)
  /\ SweepSmallAppend(SweepCall(h_small))
  /\ UNCHANGED << h_small, h_large, beta_degs, dists_large, n_calls, files, plot >>

\* the list printed after a loop reads dists[i] for every i in
\* range(len(beta_degs)): IndexError when dists is the shorter
ListRaises(dists) == Len(dists) < Len(beta_degs)

PrintSmall ==
  /\ pc = "sweep_small"
  /\ i > Len(beta_degs)
  /\ pc' = IF ListRaises(dists_small) THEN "raised" ELSE "sweep_large"
  /\ raised' = IF ListRaises(dists_small) THEN "IndexError" ELSE raised
  /\ i' = 1
  /\ UNCHANGED << h_small, h_large, beta_degs, dists_small, dists_large,
                  input_printed, n_input_blocks, n_calls, last, files, plot >>

SweepLargeAppend(r) ==
  /\ SweepEffects(h_large, r)
  /\ dists_large' = dists_large \o r.ret

SweepLarge ==
  /\ pc = "sweep_large"
  /\ i <= Len(beta_degs)
  /\ SweepLargeAppend(SweepCall(h_large))
  /\ UNCHANGED << h_small, h_large, beta_degs, dists_small, n_calls, files, plot >>

PrintLarge ==
  /\ pc = "sweep_large"
  /\ i > Len(beta_degs)
  /\ pc' = IF ListRaises(dists_large) THEN "raised" ELSE "write_csv"
  /\ raised' = IF ListRaises(dists_large) THEN "IndexError" ELSE raised
  /\ i' = 1
  /\ UNCHANGED << h_small, h_large, beta_degs, dists_small, dists_large,
                  input_printed, n_input_blocks, n_calls, last, files, plot >>

\* the name of the file main() opens for writing
CsvWritten == "distances_large.csv"

\* the distances of the other loop
CsvDistancesSmall == dists_small

\* the distances main() writes
CsvDistances == dists_large

\* the rows written: {beta_degs_field: beta_degs[i], distance_field: dists[i]}
CsvRows(degs, dists) ==
  [k \in 1..Len(degs) |-> [beta |-> degs[k], distance |-> dists[k]]]

\* "Write to csv": the file is created, the header and one row per angle
\* are written
WriteCsv ==
  /\ pc = "write_csv"
  /\ files' = [files EXCEPT ![CsvWritten] =
                 [exists |-> TRUE,
                  header |-> <<beta_degs_field, distance_field>>,
                  rows |-> CsvRows(beta_degs, CsvDistances)]]
  /\ pc' = "done"
  /\ UNCHANGED << h_small, h_large, beta_degs, i, dists_small, dists_large,
                  input_printed, n_input_blocks, n_calls, last, raised, plot >>

----------------------------------------------------------------------------
(* plot_distances.py                                                       *)

\* beta_rad = beta_deg * math.pi / 180.0
PlotRad(beta_deg) == FDiv(FMul(FInt(beta_deg), Pi), FInt(180))

\* The columns the plotter reads
PlotFields == {beta_degs_field, distance_field}

HasFields(f) == \A name \in PlotFields : \E k \in 1..Len(f.header) : f.header[k] = name

\* main(fish_size): reads distances_<fish_size>.csv, draws the bars and
\* saves the two figures
PlotMain(argv) ==
  LET fish_size == argv[1]
      f == files[CsvName(fish_size)]
      degs == [k \in 1..Len(f.rows) |-> f.rows[k].beta]
      ds == [k \in 1..Len(f.rows) |-> FAdd(f.rows[k].distance, d_b)]
      xs == [k \in 1..Len(f.rows) |-> FMul(ds[k], Tan(PlotRad(degs[k])))]
      ended(exc, a, b, c) ==
        [pc |-> "ended", argv |-> argv, fish_size |-> fish_size,
         status |-> IF exc = "none" THEN 0 ELSE 1,
         raised |-> exc, beta_degs |-> a, dists |-> b, x_along_panel |-> c]
  IN IF ~f.exists
       THEN /\ plot' = ended("FileNotFoundError", <<>>, <<>>, <<>>)
            /\ files' = files
     ELSE IF Len(f.rows) > 0 /\ ~HasFields(f)
       THEN /\ plot' = ended("KeyError", <<>>, <<>>, <<>>)
            /\ files' = files
     ELSE IF Len(f.rows) = 0
       \* np.max of an empty array
       THEN /\ plot' = ended("ValueError", degs, ds, xs)
            /\ files' = files
     ELSE /\ plot' = ended("none", degs, ds, xs)
          /\ files' = [files EXCEPT
                         ![EpsName(fish_size)] = [NoFile EXCEPT !.exists = TRUE],
                         ![PngName(fish_size)] = [NoFile EXCEPT !.exists = TRUE]]

\* the test of the number of arguments alone
ArgvMissing(argv) == Len(argv) < 1

\* the two tests of sys.argv that end in the usage message and sys.exit(1)
ArgvRefused(argv) ==
  Len(argv) < 1 \/ (argv[1] # "small" /\ argv[1] # "large")

\* the command line: python3 plot_distances.py <small|large>, run once the
\* calculator has ended
PlotCli ==
  /\ pc \in {"done", "raised"}
  /\ plot.pc = "idle"
  /\ \E argv \in Argvs :
       IF ArgvRefused(argv)
         THEN /\ plot' = [PlotIdle EXCEPT !.pc = "usage", !.argv = argv, !.status = 1]
              /\ files' = files
         ELSE PlotMain(argv)
  /\ UNCHANGED << h_small, h_large, beta_degs, pc, i, dists_small, dists_large,
                  input_printed, n_input_blocks, n_calls, last, raised >>

----------------------------------------------------------------------------
(* Direct calls of the two methods on one instance                         *)

CallEffects(method, cfg, beta, r) ==
  /\ last' = CallRecord(method, input_printed, cfg, beta, r)
  /\ n_input_blocks' = n_input_blocks + InputBlocks(r.out)
  /\ input_printed' = r.input_printed
  /\ n_calls' = n_calls + 1
  /\ UNCHANGED << h_small, h_large, beta_degs, pc, i, dists_small, dists_large,
                  raised, files, plot >>

CallNoSnell ==
  /\ pc = "api"
  /\ n_calls < MaxCalls
  /\ \E cfg \in CallConfigs, deg \in CallDegs :
       CallEffects("calc_fish_eye_to_partition_no_Snell", cfg, DegToRad(deg),
         calc_fish_eye_to_partition_no_Snell(input_printed, cfg.h_f,
           cfg.h_p_prime, cfg.h_b_prime, DegToRad(deg)))

CallSnell ==
  /\ pc = "api"
  /\ n_calls < MaxCalls
  /\ \E cfg \in CallConfigs, deg \in CallDegs :
       CallEffects("calc_fish_eye_to_partition", cfg, DegToRad(deg),
         calc_fish_eye_to_partition(input_printed, cfg.h_f, cfg.h_p_prime,
           cfg.h_b_prime, cfg.h_w_prime, DegToRad(deg)))

\* a caller holding a fresh instance: calc = CalcExperimentSetup()
InitCalls ==
  /\ h_small = SmallFish
  /\ h_large = LargeFish
  /\ beta_degs = <<>>
  /\ pc = "api"
  /\ InitCommon

----------------------------------------------------------------------------
(* Specifications                                                          *)

Next ==
  \/ SweepSmall
  \/ PrintSmall
  \/ SweepLarge
  \/ PrintLarge
  \/ WriteCsv
  \/ PlotCli

\* the script, then the plotter
Spec == Init /\ [][Next]_vars

NextCalls ==
  \/ CallNoSnell
  \/ CallSnell

\* the two methods called in any order on one instance
SpecCalls == InitCalls /\ [][NextCalls]_vars

----------------------------------------------------------------------------
(* Properties                                                              *)

IsSnellCall == last.method = "calc_fish_eye_to_partition"
IsNoSnellCall == last.method = "calc_fish_eye_to_partition_no_Snell"

\* the last call again, on an instance whose input_printed is ip
SnellAgain(ip, beta) ==
  calc_fish_eye_to_partition(ip, last.h_f, last.h_p_prime, last.h_b_prime,
    last.h_w_prime, beta)
NoSnellAgain(ip, beta) ==
  calc_fish_eye_to_partition_no_Snell(ip, last.h_f, last.h_p_prime,
    last.h_b_prime, beta)

\* water_height <= eye_height in the last call
WaterBelowEye == FLe(last.h_w_prime, last.h_f)

\* C1: a call of calc_fish_eye_to_partition with water_height <= eye_height
\* ends in an error raised to the caller and returns no distance, whatever
\* the angle.
C1_WaterBelowEyeRaises ==
  (IsSnellCall /\ WaterBelowEye) => (last.raised # "none" /\ last.ret = <<>>)

\* C2: when a call of the sweep hits a hard error (the water not above the
\* eye, or no real refraction angle), the sweep stops there: the script ends
\* with the error and no point is appended for that angle.
C2_HardErrorStopsSweep ==
  (IsSnellCall /\ (WaterBelowEye \/ last.raised = "ValueError"))
    => (pc = "raised" /\ raised # "none" /\ last.ret = <<>>)

\* the angles of the sweep that trigger no warning "Angle beta is pi/2"
ValidAngles ==
  {k \in 1..Len(beta_degs) : ~BetaIsHalfPi(DegToRad(beta_degs[k]))}

\* C3: a finished sweep holds exactly the points of the angles that
\* triggered no soft warning: an angle of +-pi/2 is skipped, so the result is
\* shorter than the angle sequence by the number of such angles.
C3_WarnedAnglesSkipped ==
  /\ pc \in {"sweep_large", "write_csv", "done"}
       => Len(dists_small) = Cardinality(ValidAngles)
  /\ pc \in {"write_csv", "done"}
       => Len(dists_large) = Cardinality(ValidAngles)

\* C4: with stimulus_height = partition_height a call of
\* calc_fish_eye_to_partition_no_Snell raises no exception, whatever the
\* angle.
C4_EqualHeightsNoCrash ==
  (IsNoSnellCall /\ last.h_b_prime = last.h_p_prime) => last.raised = "none"

\* sin(theta2) as the last call computes it; defined when the method without
\* Snell's law returns
LastSinRefracted ==
  SinRefracted(
    Atan2(NoSnellAgain(last.before, last.beta).ret[2],
          NoSnellAgain(last.before, last.beta).ret[1]))

LastReachesAsin == NoSnellAgain(last.before, last.beta).raised = "none"

\* C5: calc_fish_eye_to_partition raises the domain error of asin exactly
\* when |sin(theta1) / n21| > 1, and with n21 = 1.33 no call raises it.
C5_AsinErrorExactlyOutOfDomain ==
  IsSnellCall =>
    /\ (last.raised = "ValueError")
         <=> (LastReachesAsin /\ AsinDomainError(LastSinRefracted))
    /\ last.raised # "ValueError"

\* a call at beta = +-pi/2, where sin(theta1) is closest to 1, returned
C5_Witness ==
  /\ IsSnellCall
  /\ last.raised = "none"
  /\ FLe(Norm(75, -2), FAbs(LastSinRefracted))

\* C6: the outcome of calc_fish_eye_to_partition depends on its arguments
\* only: whatever calls were made before on the instance, it returns what a
\* fresh instance and what an instance that has printed its inputs return.
C6_ResultIndependentOfInstance ==
  IsSnellCall =>
    \A ip \in BOOLEAN :
      /\ SnellAgain(ip, last.beta).ret = last.ret
      /\ SnellAgain(ip, last.beta).raised = last.raised

\* a call that returned at an angle other than 0, on an instance that had
\* printed its inputs in an earlier call
C6_Witness ==
  /\ IsSnellCall
  /\ last.before
  /\ n_calls >= 2
  /\ last.raised = "none"
  /\ last.beta # Zero

\* C7: at angle 0 and with stimulus_height # partition_height,
\* calc_fish_eye_to_partition_no_Snell returns (d, h_p) with
\* h_p = partition_height - eye_height and
\* d = (h_p * 0.185) / ((stimulus_height - eye_height) - h_p); for the small
\* fish d is 0.0814 m to three digits.
C7_ZeroAngleDistance ==
  (IsNoSnellCall /\ last.beta = Zero /\ last.h_b_prime # last.h_p_prime) =>
    /\ last.raised = "none"
    /\ last.ret =
         << FDiv(FMul(FSub(last.h_p_prime, last.h_f), Norm(185, -3)),
                 FSub(FSub(last.h_b_prime, last.h_f),
                      FSub(last.h_p_prime, last.h_f))),
            FSub(last.h_p_prime, last.h_f) >>
    /\ (last.h_f = H(20) /\ last.h_p_prime = H(75) /\ last.h_b_prime = H(200))
         => (FLe(Norm(8135, -5), last.ret[1]) /\ FLt(last.ret[1], Norm(8145, -5)))

\* the call of scenario A returned
C7_Witness ==
  /\ IsNoSnellCall
  /\ last.beta = Zero
  /\ last.h_f = H(20) /\ last.h_p_prime = H(75) /\ last.h_b_prime = H(200)
  /\ Len(last.ret) = 2

\* C8: calc_fish_eye_to_partition_no_Snell has the same outcome at beta and
\* at -beta: the same d_b / cos(beta), the same result, the same warning
\* and the same exception.
C8_SymmetricInBeta ==
  IsNoSnellCall =>
    /\ FDiv(d_b, Cos(FNeg(last.beta))) = FDiv(d_b, Cos(last.beta))
    /\ NoSnellAgain(last.before, FNeg(last.beta)).ret = last.ret
    /\ NoSnellAgain(last.before, FNeg(last.beta)).out = last.out
    /\ NoSnellAgain(last.before, FNeg(last.beta)).raised = last.raised

\* a call at -pi/2 that printed the warning and returned
C8_Witness ==
  /\ IsNoSnellCall
  /\ last.beta = DegToRad(-90)
  /\ last.out[1] = "WARN"
  /\ Len(last.ret) = 2

\* the distance the method returns for the large fish at angle deg
LargeDistance(deg) ==
  calc_fish_eye_to_partition(TRUE, h_large.h_f, h_large.h_p_prime,
    h_large.h_b_prime, h_large.h_w_prime, DegToRad(deg)).ret

\* C9: the written table has the header and one row per point of the sweep,
\* in sweep order; row k holds the k-th angle in degrees and the distance the
\* method returns for that angle and the measurements of that sweep.
C9_RowsPairAngleAndDistance ==
  pc = "done" =>
    /\ files[CsvWritten].exists
    /\ files[CsvWritten].header = <<"beta(degs)", "distance(m)">>
    /\ Len(files[CsvWritten].rows) = Len(dists_large)
    /\ \A k \in 1..Len(dists_large) :
         /\ files[CsvWritten].rows[k].beta = beta_degs[k]
         /\ <<files[CsvWritten].rows[k].distance>> = LargeDistance(beta_degs[k])

\* the table of the script's own range, written after two sweeps over
\* different measurements
C9_Witness ==
  /\ pc = "done"
  /\ beta_degs = PyRange(-80, 90, 10)
  /\ h_small = SmallFish
  /\ h_large = LargeFish
  /\ Len(files[CsvWritten].rows) = 17

\* C10: after a complete run of the calculator, plot_distances.py run with
\* 'small' or 'large' opens its input file and reads its two columns.
C10_PlotterFindsItsInput ==
  (pc = "done" /\ plot.pc = "ended") => plot.raised = "none"

\* the figures main() of the plotter saves
Figures == {EpsName("small"), EpsName("large"), PngName("small"), PngName("large")}

C12_InputsPrintedOnce ==
  /\ n_input_blocks <= 1
  /\ n_input_blocks >= 1 => input_printed

====
